---- MODULE Spec2Model ----
(***************************************************************************)
(* Value lifecycle of one normalize property descriptor and the slot it    *)
(* addresses in one record instance (normalize/property/__init__.py).      *)
(*                                                                         *)
(* The property is declared once (Init), bound to its owning class, and    *)
(* then used through attribute syntax on record instances: construction    *)
(* calls init_prop, `obj.x` reads, `obj.x = v` sets and `del obj.x`        *)
(* deletes.  Attribute syntax goes through the descriptor protocol: a      *)
(* class that defines __set__/__delete__ is a data descriptor and always   *)
(* intercepts; one that defines only __get__ is shadowed by the instance   *)
(* __dict__ for reads and bypassed for writes and deletes.                 *)
(*                                                                         *)
(* Three further specifications share the module: SpecColl (coercion and   *)
(* storage of a collection property), SpecExc (construction of a           *)
(* structured exception, normalize/exc.py) and SpecTraits (resolution of a *)
(* trait set to a property type).  Each leaves the others' variables at    *)
(* their idle values.                                                      *)
(***************************************************************************)
EXTENDS Integers, FiniteSets, Sequences, TLC

\* ---------------------------------------------------------------- bounds
MaxVal == 1

MaxEvals == 2

MaxArgs == 2

MaxLen == 2

MaxWrappers == 2

MaxFields == 2

MaxPos == 2

\* ---------------------------------------------------------------- values
\* Python's None; every other value of the model is a small natural.
None == 0 - 1

Values == {None} \cup (0 .. MaxVal)

\* An exception instance passed as default= (ValueError('fooo bar')): an
\* object that is no number, ordered after every number by Python 2.
ExcObj == MaxVal + 1

\* Names a property can be bound under, and the owning record class.
Names == {"age", "name"}

ClassName == "SophiesRecord"

\* The concrete scalar property classes of the module.
Kinds == {"Property", "LazyProperty", "ROProperty", "SlowLazyProperty",
          "ROLazyProperty", "SafeProperty", "LazySafeProperty"}

\* The collection property classes.
CollKinds == {"CollectionProperty", "ListProperty"}

\* Method resolution order of each class (class statements' base lists).
MRO(k) ==
    CASE k = "Property"         -> <<"Property">>
      [] k = "LazyProperty"     -> <<"LazyProperty", "Property">>
      [] k = "ROProperty"       -> <<"ROProperty", "Property">>
      [] k = "SlowLazyProperty" -> <<"SlowLazyProperty", "LazyProperty", "Property">>
      [] k = "ROLazyProperty"   -> <<"ROLazyProperty", "SlowLazyProperty",
                                     "LazyProperty", "ROProperty", "Property">>
      [] k = "SafeProperty"     -> <<"SafeProperty", "Property">>
      [] k = "LazySafeProperty" -> <<"LazySafeProperty", "SafeProperty",
                                     "SlowLazyProperty", "LazyProperty", "Property">>
      [] k = "CollectionProperty" -> <<"CollectionProperty", "Property">>
      [] k = "ListProperty"     -> <<"ListProperty", "CollectionProperty", "Property">>

\* Classes whose body defines the method.
Defines(m) ==
    CASE m = "__get__"     -> {"Property", "LazyProperty", "ROProperty", "SlowLazyProperty"}
      [] m = "__set__"     -> {"ROProperty", "SafeProperty", "CollectionProperty"}
      [] m = "__delete__"  -> {"ROProperty", "SafeProperty"}
      [] m = "init_prop"   -> {"Property", "LazyProperty", "CollectionProperty"}

RECURSIVE FirstDefining(_, _, _)
\* First class of mro, at or after position i, that defines m ("object" if none).
FirstDefining(mro, i, m) ==
    IF i > Len(mro) THEN "object"
    ELSE IF mro[i] \in Defines(m) THEN mro[i]
    ELSE FirstDefining(mro, i + 1, m)

\* The implementation `self.m` resolves to on an instance of class k.
Resolve(k, m) == FirstDefining(MRO(k), 1, m)

RECURSIVE IndexOf(_, _, _)
IndexOf(mro, c, i) ==
    IF i > Len(mro) THEN i
    ELSE IF mro[i] = c THEN i
    ELSE IndexOf(mro, c, i + 1)

\* The implementation `super(c, self).m` resolves to on an instance of class k.
Super(k, c, m) == FirstDefining(MRO(k), IndexOf(MRO(k), c, 1) + 1, m)

\* A descriptor with __set__ or __delete__ is a data descriptor.
IsDataDescriptor(k) ==
    Resolve(k, "__set__") # "object" \/ Resolve(k, "__delete__") # "object"

\* Trait facets carried by the classes.
IsRO(k) == \E i \in 1 .. Len(MRO(k)) : MRO(k)[i] = "ROProperty"

IsLazy(k) == \E i \in 1 .. Len(MRO(k)) : MRO(k)[i] = "LazyProperty"

IsSlow(k) == \E i \in 1 .. Len(MRO(k)) : MRO(k)[i] = "SlowLazyProperty"

IsSafe(k) == \E i \in 1 .. Len(MRO(k)) : MRO(k)[i] = "SafeProperty"

\* ---------------------------------------------------------- declaration
\* default= is a plain value, an exception instance, a plain function, a
\* bound method, a class or an exception class.  nargs and ndefaults are
\* len(args.args) and len(args.defaults) as inspect.getargspec reports them
\* (a bound method's args start with self).
Defaults ==
    [kind : {"value"}, v : Values, nargs : {0}, ndefaults : {0}]
    \cup [kind : {"exc_instance"}, v : {ExcObj}, nargs : {0}, ndefaults : {0}]
    \cup {d \in [kind : {"function"}, v : {None}, nargs : 0 .. MaxArgs,
                 ndefaults : 0 .. MaxArgs] : d.ndefaults <= d.nargs}
    \cup {d \in [kind : {"method"}, v : {None}, nargs : 1 .. MaxArgs,
                 ndefaults : 0 .. MaxArgs] : d.ndefaults < d.nargs}
    \cup [kind : {"class", "exc_type"}, v : {None}, nargs : {0}, ndefaults : {0}]

\* callable(default)
callable(d) == d.kind \in {"function", "method", "class", "exc_type"}

\* required_args as Property.__init__ computes it from the argspec.
required_args(d) ==
    IF d.nargs = 0 THEN 0
    ELSE IF d.ndefaults # 0 THEN d.nargs - d.ndefaults
    ELSE d.nargs

\* Whether a call of the default with `passed` positional arguments binds:
\* a bound method receives self in addition to what is passed.
Accepts(d, passed) ==
    LET given == IF d.kind = "method" THEN passed + 1 ELSE passed
    IN  d.nargs - d.ndefaults <= given /\ given <= d.nargs

\* check= is absent or one of two sample predicates.
Checks == {"NoCheck", "positive", "falsy"}

CheckFn(c, v) ==
    CASE c = "positive" -> v > 0
      [] c = "falsy"    -> v <= 0
      [] OTHER          -> TRUE

\* ---------------------------------------------------------------- slots
Unset == [set |-> FALSE, v |-> None]

SetTo(v) == [set |-> TRUE, v |-> v]

VARIABLES
    kind,       \* class of the property object
    default,    \* self.default (+ self.default_wants_arg)
    required,   \* self.required
    check,      \* self.check
    name,       \* self.name
    class_,     \* self.class_: "None", or a weak reference "alive"/"dead"
    live,       \* a record instance has been constructed and is in use
    slot,       \* obj.__dict__ entry under self.name
    evals,      \* reads that evaluated the default and returned, since the
                \* last construction, assignment or deletion
    result,     \* outcome of the last call
    of,         \* self.of of a collection property
    heap,       \* number of collection wrappers constructed so far
    cslot,      \* obj.__dict__ entry of a collection property
    cresult,    \* outcome of the last call on a collection property
    typename,   \* name of a StringFormatException subclass
    tmpl,       \* its message template, as the sequence of its fields
    diag,       \* the last construction of an instance of it and its outcome
    registry,   \* trait set -> property type, as a set of entries
    resolved    \* outcome of the last trait resolution

propvars == <<kind, default, required, check, name, class_, live, slot, evals, result>>

collvars == <<of, heap, cslot, cresult>>

excvars == <<typename, tmpl, diag>>

traitvars == <<registry, resolved>>

vars == <<propvars, collvars, excvars, traitvars>>

decl == <<kind, default, required, check>>

\* ------------------------------------------------------------- outcomes
NoName == <<>>

Raise(exc, why, who, rejected) ==
    [exc |-> exc, why |-> why, who |-> who, rejected |-> rejected]

NoError == Raise("none", "", NoName, None)

\* What a method call leaves behind: the slot, the exception raised (or
\* NoError), the value returned, and whether and to what the default was
\* evaluated on the way.
Out(s, err, value, ev, dv) ==
    [slot |-> s, err |-> err, value |-> value, evaluated |-> ev, defval |-> dv]

Return(s, value) == Out(s, NoError, value, FALSE, None)

Fail(s, err) == Out(s, err, None, FALSE, None)

Evaluated(o, dv) == [o EXCEPT !.evaluated = TRUE, !.defval = dv]

Call(op, arg, supplied, o) ==
    [op |-> op, arg |-> arg, supplied |-> supplied, exc |-> o.err.exc,
     why |-> o.err.why, who |-> o.err.who, rejected |-> o.err.rejected,
     value |-> o.value, evaluated |-> o.evaluated, defval |-> o.defval]

\* ------------------------------------------------------------- Property
\* Property.__init__ returned: there is a property object.
declared == ~(result.op = "declare" /\ result.exc # "none")

bound == class_ # "None"

fullname ==
    IF ~bound THEN <<"(unbound)">>
    ELSE IF class_ = "dead" THEN <<"(GC'd class)", ".", name>>
    ELSE <<ClassName, ".", name>>

\* type_check without the required test.
type_check_ignores_required(value) ==
    IF check # "NoCheck" /\ ~CheckFn(check, value)
    THEN Raise("ValueError", "failed type check", fullname, value)
    ELSE NoError

\* The exception type_check raises for value, or NoError.
type_check(value) ==
    IF required /\ value = None
    THEN Raise("ValueError", "is required", fullname, None)
    ELSE IF check # "NoCheck" /\ ~CheckFn(check, value)
    THEN Raise("ValueError", "failed type check", fullname, value)
    ELSE NoError

default_wants_arg == required_args(default) # 0

\* Values get_default can return: the callable's result is any value, and
\* anything else is returned as it is.
get_default == IF callable(default) THEN Values ELSE {default.v}

\* Whether the call inside get_default raises TypeError for its arguments.
get_default_raises ==
    callable(default) /\ ~Accepts(default, IF default_wants_arg THEN 1 ELSE 0)

BadCall == Raise("TypeError", "takes a different number of arguments", NoName, None)

\* The exception Property.__init__ raises for default d, or NoError:
\* inspect.getargspec accepts functions and methods only.
Property_init(d) ==
    IF ~callable(d) THEN NoError
    ELSE IF d.kind \notin {"function", "method"}
    THEN Raise("TypeError", "is not a Python function", NoName, None)
    ELSE IF required_args(d) > 1
    THEN Raise("Exception", "default functions may take 0 or 1 arguments", NoName, None)
    ELSE NoError

\* init_prop storing the value before it is checked.
Property_init_prop_stores_first(s, supplied, value, dv) ==
    LET v  == IF supplied THEN value ELSE dv
        tc == type_check(v)
        o  == IF tc.exc # "none" THEN Fail(SetTo(v), tc) ELSE Return(SetTo(v), None)
    IN  IF supplied THEN o ELSE Evaluated(o, dv)

\* Property.init_prop; dv is what get_default returns if it is called.
Property_init_prop(s, supplied, value, dv) ==
    LET v  == IF supplied THEN value ELSE dv
        tc == type_check(v)
        o  == IF tc.exc # "none" THEN Fail(s, tc) ELSE Return(SetTo(v), None)
    IN  IF supplied THEN o
        ELSE IF get_default_raises THEN Evaluated(Fail(s, BadCall), None)
        ELSE Evaluated(o, dv)

\* __get__ with the membership test inverted.
Property_get_inverted(s) ==
    IF s.set THEN Fail(s, Raise("AttributeError", "", NoName, None))
    ELSE Return(s, s.v)

\* Property.__get__
Property_get(s) ==
    IF ~s.set THEN Fail(s, Raise("AttributeError", "", NoName, None))
    ELSE Return(s, s.v)

\* init_prop without the early return for a missing value.
LazyProperty_init_prop_eager(s, supplied, value, dv) ==
    Property_init_prop(s, FALSE, value, dv)

\* LazyProperty.init_prop: the super call passes no value.
LazyProperty_init_prop(s, supplied, value, dv) ==
    IF ~supplied THEN Return(s, None)
    ELSE Property_init_prop(s, FALSE, value, dv)

\* ROProperty.__get__
ROProperty_get(s) == Property_get(s)

\* __get__ storing the default before it is checked.
LazyProperty_get_stores_first(k, s, dv) ==
    LET tc == type_check(dv)
    IN  IF get_default_raises THEN Evaluated(Fail(s, BadCall), None)
        ELSE IF tc.exc # "none" THEN Evaluated(Fail(SetTo(dv), tc), dv)
        ELSE Evaluated(Property_get(SetTo(dv)), dv)

\* LazyProperty.__get__: its super call reaches ROProperty.__get__ or
\* Property.__get__ depending on the class of self.
LazyProperty_get(k, s, dv) ==
    LET tc == type_check(dv)
        up == Super(k, "LazyProperty", "__get__")
    IN  IF get_default_raises THEN Evaluated(Fail(s, BadCall), None)
        ELSE IF tc.exc # "none" THEN Evaluated(Fail(s, tc), dv)
        ELSE IF up = "ROProperty" THEN Evaluated(ROProperty_get(SetTo(dv)), dv)
        ELSE Evaluated(Property_get(SetTo(dv)), dv)

\* __set__ that stores instead of refusing.
ROProperty_set_stores(s, value) == Return(SetTo(value), None)

\* ROProperty.__set__
ROProperty_set(s, value) ==
    Fail(s, Raise("AttributeError", "is read-only", fullname, None))

\* __delete__ that removes the entry instead of refusing.
ROProperty_delete_removes(s) ==
    IF s.set THEN Return(Unset, None)
    ELSE Fail(s, Raise("AttributeError", "is read-only", fullname, None))

\* ROProperty.__delete__
ROProperty_delete(s) ==
    Fail(s, Raise("AttributeError", "is read-only", fullname, None))

\* __get__ without the look at the instance __dict__.
SlowLazyProperty_get_uncached(k, s, dv) == LazyProperty_get(k, s, dv)

\* SlowLazyProperty.__get__
SlowLazyProperty_get(k, s, dv) ==
    IF s.set THEN Return(s, s.v)
    ELSE LazyProperty_get(k, s, dv)

\* __set__ that stores without calling type_check.
SafeProperty_set_unchecked(s, value) == Return(SetTo(value), None)

\* __set__ that checks but never stores.
SafeProperty_set_keeps(s, value) ==
    LET tc == type_check(value)
    IN  IF tc.exc # "none" THEN Fail(s, tc) ELSE Return(s, None)

\* SafeProperty.__set__
SafeProperty_set(s, value) ==
    LET tc == type_check(value)
    IN  IF tc.exc # "none" THEN Fail(s, tc) ELSE Return(SetTo(value), None)

\* SafeProperty.__delete__: the super call finds a __delete__ only if a
\* class after SafeProperty in the MRO defines one.
SafeProperty_delete(k, s) ==
    LET tc == type_check(None)
        up == Super(k, "SafeProperty", "__delete__")
    IN  IF tc.exc # "none" THEN Fail(s, tc)
        ELSE IF up = "ROProperty" THEN ROProperty_delete(s)
        ELSE Fail(s, Raise("AttributeError", "'super' object has no attribute '__delete__'",
                           NoName, None))

\* ------------------------------------------------- attribute protocol
\* self.init_prop(obj[, value]) on a fresh instance.
init_prop(k, supplied, value, dv) ==
    IF Resolve(k, "init_prop") = "LazyProperty"
    THEN LazyProperty_init_prop(Unset, supplied, value, dv)
    ELSE Property_init_prop(Unset, supplied, value, dv)

\* type(self).__get__(self, obj)
Get(k, s, dv) ==
    CASE Resolve(k, "__get__") = "SlowLazyProperty" -> SlowLazyProperty_get(k, s, dv)
      [] Resolve(k, "__get__") = "LazyProperty"     -> LazyProperty_get(k, s, dv)
      [] Resolve(k, "__get__") = "ROProperty"       -> ROProperty_get(s)
      [] OTHER                                      -> Property_get(s)

\* obj.x: a data descriptor always intercepts; otherwise the instance
\* __dict__ entry, when there is one, shadows the descriptor.
GetAttr(k, s, dv) ==
    IF IsDataDescriptor(k) \/ ~s.set THEN Get(k, s, dv) ELSE Return(s, s.v)

\* obj.x = value: without a __set__ the value goes straight into __dict__.
SetAttr(k, s, value) ==
    CASE Resolve(k, "__set__") = "ROProperty"   -> ROProperty_set(s, value)
      [] Resolve(k, "__set__") = "SafeProperty" -> SafeProperty_set(s, value)
      [] OTHER                                  -> Return(SetTo(value), None)

\* del obj.x: without a __delete__ the __dict__ entry is removed, and a
\* missing entry is an AttributeError carrying the attribute name.
DelAttr(k, s) ==
    CASE Resolve(k, "__delete__") = "ROProperty"   -> ROProperty_delete(s)
      [] Resolve(k, "__delete__") = "SafeProperty" -> SafeProperty_delete(k, s)
      [] OTHER -> IF s.set THEN Return(Unset, None)
                  ELSE Fail(s, Raise("AttributeError", "", <<name>>, None))

\* ------------------------------------------------- collection property
\* Item types a collection can be declared of, and the items of the model.
ItemTypes == {"int", "str"}

Items == 1 .. 2

Lists == UNION {[1 .. n -> Items] : n \in 0 .. MaxLen}

\* What can be passed as a raw value: None, the _Default sentinel class,
\* a plain list, or a wrapper (an object with an identity).
NoneRaw == [tag |-> "None", id |-> 0, itemtype |-> "", items |-> <<>>]

DefaultRaw == [tag |-> "_Default", id |-> 0, itemtype |-> "", items |-> <<>>]

ListRaw(l) == [tag |-> "list", id |-> 0, itemtype |-> "", items |-> l]

Wrapper(i, t, l) == [tag |-> "wrapper", id |-> i, itemtype |-> t, items |-> l]

\* bool(value) of a raw value: None and empty sequences are false.
Truthy(raw) ==
    CASE raw.tag = "None"     -> FALSE
      [] raw.tag = "_Default" -> TRUE
      [] OTHER                -> raw.items # <<>>

\* self.coll(of, iterable): a new wrapper of item type t holding the items
\* of the iterable in order; h wrappers exist already.
ListCollection(t, iterable, h) ==
    IF iterable.tag = "_Default"
    THEN [exc |-> "TypeError", w |-> NoneRaw, heap |-> h]
    ELSE [exc |-> "none", w |-> Wrapper(h + 1, t, iterable.items), heap |-> h + 1]

\* CollectionProperty._coerce
coerce(raw, h) ==
    IF raw.tag # "wrapper" \/ raw.itemtype # of
    THEN ListCollection(of, IF Truthy(raw) THEN raw ELSE ListRaw(<<>>), h)
    ELSE [exc |-> "none", w |-> raw, heap |-> h]

CUnset == [set |-> FALSE, w |-> NoneRaw]

CSetTo(w) == [set |-> TRUE, w |-> w]

CCall(op, raw, exc, coerced) ==
    [op |-> op, raw |-> raw, exc |-> exc, coerced |-> coerced]

\* CollectionProperty.__set__: the value is coerced first, then handed to
\* the __set__ of the next class in the MRO, if there is one.
CollectionProperty_set(k, s, raw, h) ==
    LET c  == coerce(raw, h)
        up == Super(k, "CollectionProperty", "__set__")
    IN  IF c.exc # "none" THEN [slot |-> s, exc |-> c.exc, coerced |-> c.w, heap |-> c.heap]
        ELSE IF up = "object"
        THEN [slot |-> s, exc |-> "AttributeError", coerced |-> c.w, heap |-> c.heap]
        ELSE [slot |-> CSetTo(c.w), exc |-> "none", coerced |-> c.w, heap |-> c.heap]

\* CollectionProperty.init_prop: whatever it was called with, the sentinel
\* included, is coerced and passed on to Property.init_prop as a value,
\* which stores it (a wrapper is not None, and no check is declared).
CollectionProperty_init_prop(k, raw, h) ==
    LET c == coerce(raw, h)
    IN  IF c.exc # "none" THEN [slot |-> CUnset, exc |-> c.exc, coerced |-> c.w, heap |-> c.heap]
        ELSE [slot |-> CSetTo(c.w), exc |-> "none", coerced |-> c.w, heap |-> c.heap]

\* ------------------------------------------------ structured exceptions
\* Keyword names a raise site can pass, and the names of two subclasses.
Keys == {"prop", "value"}

TypeNames == {"CoerceError", "ReadOnlyAttributeError"}

\* A replacement field of a template: {idx} or {key}.
Pos(i) == [pos |-> TRUE, idx |-> i, key |-> ""]

Key(k) == [pos |-> FALSE, idx |-> 0, key |-> k]

Fields == {Pos(i) : i \in 0 .. MaxPos - 1} \cup {Key(k) : k \in Keys}

Templates == UNION {[1 .. n -> Fields] : n \in 0 .. MaxFields}

\* The message templates of the two format errors.
PositionalTemplate == <<Key("typename"), Key("received")>>

KeywordTemplate == <<Key("typename"), Key("missing"), Key("passed")>>

RECURSIVE format(_, _, _, _)
\* self.message.format(*args, **kwargs) with n positional arguments and the
\* keyword names ks: the fields of t are filled from position i on, and the
\* first one that finds no argument raises.
format(t, i, n, ks) ==
    IF i > Len(t) THEN [exc |-> "none", key |-> ""]
    ELSE IF t[i].pos /\ t[i].idx >= n THEN [exc |-> "IndexError", key |-> ""]
    ELSE IF ~t[i].pos /\ t[i].key \notin ks THEN [exc |-> "KeyError", key |-> t[i].key]
    ELSE format(t, i + 1, n, ks)

\* What the raise site passed besides the template arguments.
NoInfo == [typename |-> "", missing |-> "", received |-> 0, passed |-> {}]

\* Outcome of a construction: the exception object that results (the one
\* asked for, or the format error raised in its place), with its arguments.
Diag(type, n, ks, info, raised, exc) ==
    [type |-> type, nargs |-> n, keys |-> ks, info |-> info, raised |-> raised,
     exc |-> exc, formatted |-> (exc = "none")]

\* __init__ that lets the IndexError of format escape.
StringFormatException_init_no_positional(type, t, n, ks, info) ==
    LET f == format(t, 1, n, ks)
    IN  CASE f.exc = "KeyError" ->
                Diag("KeywordExceptionFormatError", 0, {"typename", "missing", "passed"},
                     [NoInfo EXCEPT !.typename = type, !.missing = f.key, !.passed = ks],
                     TRUE, "none")
          [] OTHER -> Diag(type, n, ks, info, FALSE, f.exc)

RECURSIVE StringFormatException_init(_, _, _, _, _)
\* StringFormatException.__init__ of class `type` with template t; the format
\* errors are StringFormatExceptions themselves and are constructed the
\* same way.
StringFormatException_init(type, t, n, ks, info) ==
    LET f == format(t, 1, n, ks)
    IN  CASE f.exc = "IndexError" ->
                [StringFormatException_init(
                    "PositionalExceptionFormatError", PositionalTemplate, 0,
                    {"typename", "received"},
                    [NoInfo EXCEPT !.typename = type, !.received = n])
                 EXCEPT !.raised = TRUE]
          [] f.exc = "KeyError" ->
                [StringFormatException_init(
                    "KeywordExceptionFormatError", KeywordTemplate, 0,
                    {"typename", "missing", "passed"},
                    [NoInfo EXCEPT !.typename = type, !.missing = f.key, !.passed = ks])
                 EXCEPT !.raised = TRUE]
          [] OTHER -> Diag(type, n, ks, info, FALSE, "none")

NoDiag == Diag("", 0, {}, NoInfo, FALSE, "none")

NoConstruction == [call |-> [nargs |-> 0, keys |-> {}], made |-> NoDiag]

\* ------------------------------------------------------ trait resolution
\* The __trait__ a class body declares ("" for none).
TraitOf(c) ==
    CASE c = "LazyProperty"       -> "lazy"
      [] c = "ROProperty"         -> "ro"
      [] c = "SlowLazyProperty"   -> "slow"
      [] c = "SafeProperty"       -> "safe"
      [] c = "CollectionProperty" -> "coll"
      [] c = "ListProperty"       -> "list"
      [] OTHER                    -> ""

\* The trait set a class provides: the traits declared along its MRO.
TraitsOf(k) == {TraitOf(MRO(k)[i]) : i \in 1 .. Len(MRO(k))} \ {""}

Traits == UNION {TraitsOf(k) : k \in Kinds}

\* A property type: the classes it is composed of, and a serial number that
\* tells apart types synthesized at different times (0 for a class of the
\* module).
Impl(serial, parts) == [serial |-> serial, parts |-> parts]

Entry(T, impl) == [traits |-> T, impl |-> impl]

\* The registry once the module is loaded.
LoadedRegistry == {Entry(TraitsOf(k), Impl(0, {k})) : k \in Kinds}

\* Sets of registered types with pairwise disjoint, non-empty trait sets
\* whose union is T.
Covers(T, reg) ==
    LET cand == {e \in reg : e.traits # {} /\ e.traits \subseteq T}
    IN  {C \in SUBSET cand :
            /\ UNION {e.traits : e \in C} = T
            /\ \A e1, e2 \in C : e1 # e2 => e1.traits \cap e2.traits = {}}

MinimalCovers(T, reg) ==
    {C \in Covers(T, reg) :
        \A C2 \in Covers(T, reg) : Cardinality(C) <= Cardinality(C2)}

\* The compositions the minimal covers yield.
Compositions(T, reg) ==
    {UNION {e.impl.parts : e \in C} : C \in MinimalCovers(T, reg)}

Resolution(T, exc, impl, reg, wrote) ==
    [traits |-> T, exc |-> exc, impl |-> impl, registry |-> reg, wrote |-> wrote]

NoImpl == Impl(0, {})

\* Resolution that goes straight to synthesis.
resolve_without_lookup(T, reg) ==
    LET comps == Compositions(T, reg)
        new   == Impl(Cardinality(reg) + 1, CHOOSE c \in comps : TRUE)
    IN  IF comps = {} THEN Resolution(T, "PropertyTypeMixNotFound", NoImpl, reg, FALSE)
        ELSE IF Cardinality(comps) > 1
        THEN Resolution(T, "PropertyTypeClash", NoImpl, reg, FALSE)
        ELSE Resolution(T, "none", new, reg \cup {Entry(T, new)}, TRUE)

\* Resolution of trait set T against registry reg: the registered type if
\* there is one, else the type synthesized from the one minimal disjoint
\* cover, which is registered under T.
resolve(T, reg) ==
    LET exact == {e \in reg : e.traits = T}
        comps == Compositions(T, reg)
        new   == Impl(Cardinality(reg) + 1, CHOOSE c \in comps : TRUE)
    IN  IF exact # {}
        THEN Resolution(T, "none", (CHOOSE e \in exact : TRUE).impl, reg, FALSE)
        ELSE IF comps = {} THEN Resolution(T, "PropertyTypeMixNotFound", NoImpl, reg, FALSE)
        ELSE IF Cardinality(comps) > 1
        THEN Resolution(T, "PropertyTypeClash", NoImpl, reg, FALSE)
        ELSE Resolution(T, "none", new, reg \cup {Entry(T, new)}, TRUE)

NoResolution == [traits |-> {}, exc |-> "unresolved", impl |-> NoImpl, wrote |-> FALSE]

\* ------------------------------------------------------------- actions
\* The registry while another specification runs.
TraitIdle ==
    /\ registry = {}
    /\ resolved = NoResolution

\* The structured exceptions while another specification runs.
ExcIdle ==
    /\ typename = "StringFormatException"
    /\ tmpl = <<>>
    /\ diag = NoConstruction

\* The scalar property while another specification runs.
PropIdle ==
    /\ default = [kind |-> "value", v |-> None, nargs |-> 0, ndefaults |-> 0]
    /\ required = FALSE
    /\ check = "NoCheck"
    /\ name = "None"
    /\ class_ = "None"
    /\ live = FALSE
    /\ slot = Unset
    /\ evals = 0
    /\ result = Call("declare", None, FALSE, Return(Unset, None))

\* The collection property while another specification runs.
CollIdle ==
    /\ of = "int"
    /\ heap = 0
    /\ cslot = CUnset
    /\ cresult = CCall("declare", NoneRaw, "none", NoneRaw)

Init ==
    /\ CollIdle
    /\ TraitIdle
    /\ ExcIdle
    /\ kind \in Kinds
    /\ default \in Defaults
    /\ required \in BOOLEAN
    /\ check \in Checks
    /\ name = "None"
    /\ class_ = "None"
    /\ live = FALSE
    /\ slot = Unset
    /\ evals = 0
    /\ result = Call("declare", None, FALSE, Fail(Unset, Property_init(default)))

\* Property.bind: no guard of its own; a class is defined (and its
\* properties bound) before instances of it are constructed.
bind ==
    /\ declared
    /\ ~live
    /\ \E n \in Names :
        /\ name' = n
        /\ class_' = "alive"
    /\ result' = Call("bind", None, FALSE, Return(Unset, None))
    /\ UNCHANGED <<decl, live, slot, evals, collvars, excvars, traitvars>>

\* Construction of a record instance: a fresh __dict__, then init_prop with
\* the value supplied for the property, if any.  A constructor that raises
\* yields no instance.
Initialize ==
    /\ bound
    /\ \E supplied \in BOOLEAN, value \in Values, dv \in get_default :
        LET o == init_prop(kind, supplied, IF supplied THEN value ELSE None, dv)
        IN  /\ slot' = o.slot
            /\ live' = (o.err.exc = "none")
            /\ result' = Call("init", IF supplied THEN value ELSE None, supplied, o)
    /\ evals' = 0
    /\ UNCHANGED <<decl, name, class_, collvars, excvars, traitvars>>

\* obj.x
Read ==
    /\ live
    /\ \E dv \in get_default :
        LET o == GetAttr(kind, slot, dv)
            n == IF o.evaluated /\ o.err.exc = "none" THEN evals + 1 ELSE evals
        IN  /\ n <= MaxEvals
            /\ slot' = o.slot
            /\ evals' = n
            /\ result' = Call("read", None, FALSE, o)
    /\ UNCHANGED <<decl, name, class_, live, collvars, excvars, traitvars>>

\* obj.x = value
Set ==
    /\ live
    /\ \E value \in Values :
        LET o == SetAttr(kind, slot, value)
        IN  /\ slot' = o.slot
            /\ result' = Call("set", value, TRUE, o)
    /\ evals' = 0
    /\ UNCHANGED <<decl, name, class_, live, collvars, excvars, traitvars>>

\* del obj.x
Delete ==
    /\ live
    /\ LET o == DelAttr(kind, slot)
       IN  /\ slot' = o.slot
           /\ result' = Call("delete", None, FALSE, o)
    /\ evals' = 0
    /\ UNCHANGED <<decl, name, class_, live, collvars, excvars, traitvars>>

\* ------------------------------------------- traversal collaborator
\* Whether the slot carries no information for traversal and serialization:
\* it is Unset, or holds the declared default (empty) value.
is_unset(s) == ~s.set \/ (default.kind = "value" /\ s.v = default.v)

\* The visit result for the one field.
visit(s) == IF is_unset(s) THEN {} ELSE {<<name, s.v>>}

\* ------------------------------------------------------------ properties
\* Whether value meets the declared required/check constraints.
Valid(value) ==
    /\ ~(required /\ value = None)
    /\ check = "positive" => value > 0
    /\ check = "falsy" => value <= 0

\* The same class without the read-only facet.
Writable(k) == IF k = "ROLazyProperty" THEN "SlowLazyProperty" ELSE "Property"

\* C1: on a read-only property every Set and every Delete raises the
\* "is read-only" AttributeError carrying the qualified name and leaves the
\* slot as it was, whatever the value and the slot state; a Read behaves as
\* on the same class without the read-only facet.
C1_ReadOnlyRejects ==
    [][IsRO(kind) =>
        /\ result'.op \in {"set", "delete"} =>
            /\ slot' = slot
            /\ result'.exc = "AttributeError"
            /\ result'.why = "is read-only"
            /\ result'.who = <<ClassName, ".", name>>
        /\ result'.op = "read" =>
            \E dv \in get_default :
                /\ slot' = GetAttr(Writable(kind), slot, dv).slot
                /\ result' = Call("read", None, FALSE, GetAttr(Writable(kind), slot, dv))
      ]_vars

C1_Witness ==
    /\ IsRO(kind)
    /\ result.op = "set"
    /\ result.why = "is read-only"
    /\ Valid(result.arg)
    /\ slot.set
    /\ slot.v # result.arg

C3_UnsetReadIsTransient ==
    [][(/\ ~IsSlow(kind)
        /\ result'.op = "read"
        /\ ~slot.set)
       => (~slot'.set /\ result'.evaluated)]_vars

\* C4: on a slow-lazy property a Read of an Unset slot that returns has
\* evaluated the default and stored it, a Read of a Set slot returns the
\* stored value without evaluating the default, and between two calls of
\* Initialize, Set or Delete at most one Read evaluates the default and
\* returns.
C4_SlowLazyCaches ==
    /\ [](IsSlow(kind) => evals <= 1)
    /\ [][(IsSlow(kind) /\ result'.op = "read") =>
            IF slot.set
            THEN /\ ~result'.evaluated
                 /\ result'.exc = "none"
                 /\ result'.value = slot.v
                 /\ slot' = slot
            ELSE result'.exc = "none" =>
                 /\ result'.evaluated
                 /\ result'.value = result'.defval
                 /\ slot' = SetTo(result'.defval)
         ]_vars

C4_Witness ==
    /\ IsSlow(kind)
    /\ IsDataDescriptor(kind)
    /\ default.kind = "function"
    /\ result.op = "read"
    /\ result.exc = "none"
    /\ ~result.evaluated
    /\ evals = 1

\* C5: on every property class a Read of a slot in state Set(v) returns v,
\* does not evaluate the default and leaves the slot as it was.
C5_ReadOfSetSlot ==
    [][(result'.op = "read" /\ slot.set) =>
        /\ result'.exc = "none"
        /\ result'.value = slot.v
        /\ ~result'.evaluated
        /\ slot' = slot
      ]_vars

C5_Witness ==
    /\ kind = "LazySafeProperty"
    /\ default.kind = "value"
    /\ result.op = "read"
    /\ result.exc = "none"
    /\ slot.set
    /\ result.value = slot.v
    /\ slot.v # default.v

\* C6: Set on a type-checked property raises a ValueError carrying the
\* qualified name, and keeps the slot, exactly when the value is None on a
\* required property or fails the declared check; otherwise it returns and
\* the slot holds the value.
C6_SetValidates ==
    [][(IsSafe(kind) /\ result'.op = "set") =>
        IF Valid(result'.arg)
        THEN result'.exc = "none" /\ slot' = SetTo(result'.arg)
        ELSE /\ result'.exc = "ValueError"
             /\ result'.who = <<ClassName, ".", name>>
             /\ slot' = slot
      ]_vars

C6_Witness ==
    /\ IsSafe(kind)
    /\ result.op = "set"
    /\ result.exc = "ValueError"
    /\ result.why = "failed type check"
    /\ ~required
    /\ slot.set

\* C7 as stated: on every property class the slot is Unset or holds a value
\* that meets the required/check constraints.
C7_SlotAlwaysValid == slot.set => Valid(slot.v)

\* C7 amended: on the type-checked and the read-only classes the slot is
\* Unset or holds a value that meets the required/check constraints.
C7_CheckedSlotValid ==
    (IsSafe(kind) \/ IsRO(kind)) => (slot.set => Valid(slot.v))

C7_Witness ==
    /\ IsSafe(kind)
    /\ check = "positive"
    /\ required
    /\ result.op = "set"
    /\ result.exc = "ValueError"
    /\ slot.set

\* C8: Initialize with a supplied value validates that value and, when it
\* passes, leaves it in the slot, on every property class.
C8_InitStoresSupplied ==
    (result.op = "init" /\ result.supplied) =>
        IF Valid(result.arg)
        THEN result.exc = "none" /\ slot = SetTo(result.arg)
        ELSE result.exc = "ValueError" /\ ~slot.set

\* C9 as stated: Initialize without a value on a required property without
\* default raises a ValueError carrying the qualified name and leaves the
\* slot Unset, on every property class.
C9_RequiredInitRaises ==
    (/\ required
     /\ default.kind = "value"
     /\ default.v = None
     /\ result.op = "init"
     /\ ~result.supplied)
    => /\ result.exc = "ValueError"
       /\ result.who = <<ClassName, ".", name>>
       /\ ~slot.set

\* C9 amended: on an eager class that Initialize raises the ValueError
\* carrying the qualified name and leaves the slot Unset; on a lazy class it
\* returns with the slot Unset and the ValueError is raised by a Read of the
\* Unset slot instead.
C9_RequiredInitEagerRaises ==
    /\ [](  (/\ required
             /\ default.kind = "value"
             /\ default.v = None
             /\ result.op = "init"
             /\ ~result.supplied)
          => IF IsLazy(kind)
             THEN result.exc = "none" /\ ~slot.set /\ live
             ELSE /\ result.exc = "ValueError"
                  /\ result.why = "is required"
                  /\ result.who = <<ClassName, ".", name>>
                  /\ ~slot.set
                  /\ ~live)
    /\ [][(/\ required
           /\ default.kind = "value"
           /\ default.v = None
           /\ IsLazy(kind)
           /\ result'.op = "read"
           /\ ~slot.set)
          => /\ result'.exc = "ValueError"
             /\ result'.why = "is required"
             /\ result'.who = <<ClassName, ".", name>>
             /\ ~slot'.set]_vars

C9_Witness ==
    /\ required
    /\ default.kind = "value"
    /\ default.v = None
    /\ ~IsLazy(kind)
    /\ result.op = "init"
    /\ ~result.supplied
    /\ result.exc = "ValueError"

\* C10: Delete on a writable property that is not required returns and
\* leaves the slot Unset, from either slot state.
C10_DeleteUnsets ==
    [][(/\ ~IsRO(kind)
        /\ ~required
        /\ result'.op = "delete")
       => (result'.exc = "none" /\ ~slot'.set)]_vars

\* Whether the property was declared without a default specification.
NoDefault == default.kind = "value" /\ default.v = None

\* Arguments a caller of the default has to pass.
Needs(d) ==
    CASE d.kind = "function" -> d.nargs - d.ndefaults
      [] d.kind = "method"   -> d.nargs - 1 - d.ndefaults
      [] OTHER               -> 0

\* C11: with an exception instance or an exception type as default, the
\* declaration is accepted, a Read of the Unset slot raises that exception
\* and leaves the slot Unset, and the exception is never the slot's value.
C11_ExceptionDefaultRaises ==
    /\ [](default.kind \in {"exc_instance", "exc_type"} =>
            /\ declared
            /\ slot.set => slot.v # ExcObj)
    /\ [][(/\ default.kind \in {"exc_instance", "exc_type"}
           /\ result'.op = "read"
           /\ ~slot.set)
          => (result'.exc = "default" /\ ~slot'.set)]_vars

\* C12: on a property declared without default, construction without a
\* value leaves the slot Unset, and a Read that follows raises
\* AttributeError.
C12_NoDefaultReadRaises ==
    /\ []((/\ NoDefault
           /\ result.op = "init"
           /\ ~result.supplied
           /\ live)
          => ~slot.set)
    /\ [][(/\ NoDefault
           /\ result.op = "init"
           /\ ~result.supplied
           /\ live
           /\ result'.op = "read")
          => result'.exc = "AttributeError"]_vars

\* C13: a callable default is rejected at declaration exactly when a caller
\* has to pass it more than one argument, and no Read raises TypeError for
\* the arguments the default is called with.
C13_ArityCheckedAtDeclaration ==
    /\ default.kind \in {"function", "method", "class"} =>
        (declared <=> Needs(default) <= 1)
    /\ result.op = "read" => result.exc # "TypeError"

\* C16: bind on a property that is already bound raises and leaves name and
\* class_ as the first bind set them.
C16_BindIsOneShot ==
    [][(bound /\ result'.op = "bind")
       => (result'.exc # "none" /\ name' = name /\ class_' = class_)]_vars

\* C19: Initialize without a value on a lazy class returns with the slot
\* Unset and the default not evaluated, and the Read that follows evaluates
\* it; on an eager class that Initialize evaluates the default.
C19_LazyDefersDefault ==
    /\ []((result.op = "init" /\ ~result.supplied) =>
            IF IsLazy(kind)
            THEN ~slot.set /\ ~result.evaluated /\ result.exc = "none" /\ live
            ELSE result.evaluated)
    /\ [][(/\ IsLazy(kind)
           /\ result.op = "init"
           /\ ~result.supplied
           /\ result'.op = "read")
          => result'.evaluated]_vars

C19_Witness ==
    /\ IsLazy(kind)
    /\ default.kind = "function"
    /\ result.op = "init"
    /\ ~result.supplied
    /\ ~result.evaluated
    /\ live
    /\ ~slot.set

\* C20: a Read of an Unset slot on a lazy or slow-lazy class whose default
\* evaluates to a value that fails required/check raises the ValueError
\* carrying the qualified name and leaves the slot Unset, and a Read right
\* after such a failure evaluates the default again.
C20_FailedDefaultNotCached ==
    /\ [][(/\ IsLazy(kind)
           /\ result'.op = "read"
           /\ ~slot.set
           /\ result'.evaluated
           /\ result'.exc # "TypeError"
           /\ ~Valid(result'.defval))
          => /\ result'.exc = "ValueError"
             /\ result'.who = <<ClassName, ".", name>>
             /\ ~slot'.set]_vars
    /\ [][(/\ IsLazy(kind)
           /\ result.op = "read"
           /\ result.exc = "ValueError"
           /\ result'.op = "read")
          => (result'.evaluated /\ slot = Unset)]_vars

C20_Witness ==
    /\ IsSlow(kind)
    /\ default.kind = "function"
    /\ result.op = "read"
    /\ result.exc = "ValueError"
    /\ result.evaluated
    /\ ~slot.set

\* C21: on a ROLazyProperty every Read, Set and Delete of an instance
\* leaves the slot as it was, except a Read of an Unset slot that returns,
\* which stores the value it returns; a Read that returns returns what the
\* slot then holds, so a Set slot never changes and all Reads that return
\* return the same value.
C21_ROLazySetOnce ==
    [][(kind = "ROLazyProperty" /\ result'.op \in {"read", "set", "delete"}) =>
        /\ slot.set => slot' = slot
        /\ slot' # slot =>
            /\ result'.op = "read"
            /\ result'.exc = "none"
            /\ slot' = SetTo(result'.value)
        /\ (result'.op = "read" /\ result'.exc = "none") =>
            slot' = SetTo(result'.value)
        /\ result'.op \in {"set", "delete"} => result'.exc = "AttributeError"
      ]_vars

C21_Witness ==
    /\ kind = "ROLazyProperty"
    /\ default.kind = "function"
    /\ result.op = "read"
    /\ result.exc = "none"
    /\ ~result.evaluated
    /\ evals = 1
    /\ slot = SetTo(result.value)

Next == bind \/ Initialize \/ Read \/ Set \/ Delete

Spec == Init /\ [][Next]_vars

\* ------------------------------------------------------------- SpecColl
\* A ListProperty or CollectionProperty declared of some item type and
\* bound; instances are constructed and assigned to.
InitColl ==
    /\ PropIdle
    /\ TraitIdle
    /\ ExcIdle
    /\ kind \in CollKinds
    /\ of \in ItemTypes
    /\ heap = 0
    /\ cslot = CUnset
    /\ cresult = CCall("declare", NoneRaw, "none", NoneRaw)

\* Raw values a caller can pass: None, a list, a wrapper it constructs
\* itself, or the wrapper it finds in the slot.
Raws ==
    {NoneRaw} \cup {ListRaw(l) : l \in Lists}
    \cup {Wrapper(heap + 1, t, l) : t \in ItemTypes, l \in Lists}
    \cup (IF cslot.set THEN {cslot.w} ELSE {})

\* Wrappers in existence once the caller has produced raw.
Allocated(raw) == IF raw.tag = "wrapper" /\ raw.id > heap THEN heap + 1 ELSE heap

\* Construction of a record instance, with or without a value for the
\* collection property.
CollInitialize ==
    /\ \E raw \in Raws \cup {DefaultRaw} :
        LET o == CollectionProperty_init_prop(kind, raw, Allocated(raw))
        IN  /\ o.heap <= MaxWrappers
            /\ heap' = o.heap
            /\ cslot' = o.slot
            /\ cresult' = CCall("init", raw, o.exc, o.coerced)
            /\ live' = (o.exc = "none")
    /\ UNCHANGED <<decl, name, class_, slot, evals, result, of, excvars, traitvars>>

\* obj.x = raw on a collection property
CollSet ==
    /\ live
    /\ \E raw \in Raws :
        LET o == CollectionProperty_set(kind, cslot, raw, Allocated(raw))
        IN  /\ o.heap <= MaxWrappers
            /\ heap' = o.heap
            /\ cslot' = o.slot
            /\ cresult' = CCall("set", raw, o.exc, o.coerced)
    /\ UNCHANGED <<propvars, of, excvars, traitvars>>

NextColl == CollInitialize \/ CollSet

SpecColl == InitColl /\ [][NextColl]_vars

\* -------------------------------------------------------------- SpecExc
\* A subclass of StringFormatException with some message template; raise
\* sites construct instances of it with positional and keyword arguments.
InitExc ==
    /\ PropIdle
    /\ TraitIdle
    /\ kind = "Property"
    /\ CollIdle
    /\ typename \in TypeNames
    /\ tmpl \in Templates
    /\ diag = NoConstruction

\* typename(*args, **kwargs)
Construct ==
    /\ \E n \in 0 .. MaxPos, ks \in SUBSET Keys :
        diag' = [call |-> [nargs |-> n, keys |-> ks],
                 made |-> StringFormatException_init(typename, tmpl, n, ks, NoInfo)]
    /\ UNCHANGED <<propvars, collvars, typename, tmpl, traitvars>>

NextExc == Construct

SpecExc == InitExc /\ [][NextExc]_vars

\* Whether field i of the template finds its argument in the last call.
Satisfied(i) ==
    IF tmpl[i].pos THEN tmpl[i].idx < diag.call.nargs
    ELSE tmpl[i].key \in diag.call.keys

\* C17 as stated: a template that references a keyword not passed yields a
\* KeywordExceptionFormatError, one that references a position not passed
\* yields a PositionalExceptionFormatError, each carrying the type name and
\* what was passed, and a template whose references are all passed yields
\* the exception asked for.
C17_FormatErrors ==
    diag.made.type # "" =>
        /\ (\E i \in 1 .. Len(tmpl) : ~tmpl[i].pos /\ ~Satisfied(i)) =>
            /\ diag.made.type = "KeywordExceptionFormatError"
            /\ diag.made.info.typename = typename
            /\ diag.made.info.passed = diag.call.keys
        /\ (\E i \in 1 .. Len(tmpl) : tmpl[i].pos /\ ~Satisfied(i)) =>
            /\ diag.made.type = "PositionalExceptionFormatError"
            /\ diag.made.info.typename = typename
            /\ diag.made.info.received = diag.call.nargs
        /\ (\A i \in 1 .. Len(tmpl) : Satisfied(i)) =>
            /\ ~diag.made.raised
            /\ diag.made.type = typename

\* C17 amended: the first reference of the template, in template order,
\* that is not passed decides: a keyword yields a
\* KeywordExceptionFormatError carrying the type name, the missing keyword
\* and the keywords passed, a position yields a
\* PositionalExceptionFormatError carrying the type name and the positional
\* arguments passed; both are themselves fully formatted; a template whose
\* references are all passed yields the formatted exception asked for.
C17_FirstMissingDecides ==
    diag.made.type # "" =>
        /\ \A i \in 1 .. Len(tmpl) :
            (~Satisfied(i) /\ \A j \in 1 .. i - 1 : Satisfied(j)) =>
                /\ diag.made.raised
                /\ diag.made.formatted
                /\ diag.made.info.typename = typename
                /\ IF tmpl[i].pos
                   THEN /\ diag.made.type = "PositionalExceptionFormatError"
                        /\ diag.made.info.received = diag.call.nargs
                   ELSE /\ diag.made.type = "KeywordExceptionFormatError"
                        /\ diag.made.info.missing = tmpl[i].key
                        /\ diag.made.info.passed = diag.call.keys
        /\ (\A i \in 1 .. Len(tmpl) : Satisfied(i)) =>
            /\ ~diag.made.raised
            /\ diag.made.formatted
            /\ diag.made.type = typename
            /\ diag.made.nargs = diag.call.nargs
            /\ diag.made.keys = diag.call.keys

C17_Witness ==
    /\ Len(tmpl) = 2
    /\ ~tmpl[1].pos
    /\ tmpl[2].pos
    /\ diag.call.keys = {"value"}
    /\ diag.call.nargs = 0
    /\ diag.made.type = "KeywordExceptionFormatError"
    /\ diag.made.info.missing = "prop"

\* ----------------------------------------------------------- SpecTraits
\* The registry holds the classes of the module; property declarations ask
\* for trait sets, one after the other.
InitTraits ==
    /\ PropIdle
    /\ kind = "Property"
    /\ CollIdle
    /\ ExcIdle
    /\ registry = LoadedRegistry
    /\ resolved = NoResolution

\* Resolution of a requested trait set.
Resolve_traits ==
    /\ \E T \in SUBSET Traits :
        LET o == resolve(T, registry)
        IN  /\ registry' = o.registry
            /\ resolved' = [traits |-> o.traits, exc |-> o.exc, impl |-> o.impl,
                            wrote |-> o.wrote]
    /\ UNCHANGED <<propvars, collvars, excvars>>

NextTraits == Resolve_traits

SpecTraits == InitTraits /\ [][NextTraits]_vars

\* C18: the registry never holds two types under one trait set; a
\* resolution of a registered trait set returns the registered type and
\* leaves the registry as it was; a resolution that synthesizes adds exactly
\* the entry for the requested set; a failed resolution writes nothing; so
\* resolving the same set again returns the same type.
C18_ResolutionMemoized ==
    /\ [](\A e1, e2 \in registry : e1.traits = e2.traits => e1.impl = e2.impl)
    /\ [][resolved' # resolved =>
            IF resolved'.exc # "none"
            THEN registry' = registry /\ ~resolved'.wrote
            ELSE IF \E e \in registry : e.traits = resolved'.traits
            THEN /\ registry' = registry
                 /\ ~resolved'.wrote
                 /\ Entry(resolved'.traits, resolved'.impl) \in registry
            ELSE /\ registry' = registry \cup {Entry(resolved'.traits, resolved'.impl)}
                 /\ resolved'.wrote
         ]_vars
    /\ [][(resolved.exc = "none" /\ resolved'.traits = resolved.traits)
          => (resolved'.exc = "none" /\ resolved'.impl = resolved.impl
              /\ registry' = registry)]_vars

C18_Witness ==
    /\ resolved.exc = "none"
    /\ ~resolved.wrote
    /\ resolved.impl.serial > 0
    /\ resolved.traits = {"ro", "safe"}

\* C14: assigning a plain list to a collection property returns and leaves
\* in the slot a wrapper of the declared item type with the list's items in
\* order; assigning a wrapper of the declared item type returns and leaves
\* that same wrapper in the slot.
C14_AssignWraps ==
    [][cresult'.op = "set" =>
        /\ cresult'.raw.tag = "list" =>
            /\ cresult'.exc = "none"
            /\ cslot'.set
            /\ cslot'.w.tag = "wrapper"
            /\ cslot'.w.itemtype = of
            /\ cslot'.w.items = cresult'.raw.items
        /\ (cresult'.raw.tag = "wrapper" /\ cresult'.raw.itemtype = of) =>
            /\ cresult'.exc = "none"
            /\ cslot' = CSetTo(cresult'.raw)
      ]_vars

\* C15: initializing a collection property with None or with no value
\* returns and leaves an empty wrapper of the declared item type in the slot.
C15_AbsentCoercesToEmpty ==
    (cresult.op = "init" /\ cresult.raw.tag \in {"None", "_Default"}) =>
        /\ cresult.exc = "none"
        /\ cslot.set
        /\ cslot.w.tag = "wrapper"
        /\ cslot.w.itemtype = of
        /\ cslot.w.items = <<>>
====
